---------------------------- MODULE Spec2Model ----------------------------
(***************************************************************************)
(* A model of the raw Bib(La)TeX parser of src/src/syntax.rs.              *)
(*                                                                         *)
(* Text is a sequence of characters, each character a one-character        *)
(* string.  Positions are byte offsets, as in the source: `index` grows by *)
(* len_utf8 of every character eaten and slices are taken by byte offset.  *)
(* The parser is a state machine whose control point is `pc`; every loop   *)
(* iteration of parse, parse_entry, read_prop and skip_ws is one step.     *)
(***************************************************************************)
EXTENDS Integers, Sequences, FiniteSets, TLC

(***************************************************************************)
(* Bound of the model: the number of freely chosen characters that follow  *)
(* a fixed beginning of the buffer.                                        *)
(***************************************************************************)
MaxTail == 3

\* Option<char>::None, for a peeked or eaten character.
None == "None"

\* Option<&str>: None is the empty sequence, Some(s) the sequence of s alone.
NoneStr == <<>>

Some(s) == <<s>>

\* Option::unwrap_or_default
unwrap_or_default(o) == IF o = NoneStr THEN <<>> ELSE o[1]

(***************************************************************************)
(* Characters.                                                             *)
(***************************************************************************)
LowerLetters ==
    <<"a", "b", "c", "d", "e", "f", "g", "h", "i", "j", "k", "l", "m",
      "n", "o", "p", "q", "r", "s", "t", "u", "v", "w", "x", "y", "z">>

UpperLetters ==
    <<"A", "B", "C", "D", "E", "F", "G", "H", "I", "J", "K", "L", "M",
      "N", "O", "P", "Q", "R", "S", "T", "U", "V", "W", "X", "Y", "Z">>

Digits == {"0", "1", "2", "3", "4", "5", "6", "7", "8", "9"}

\* Characters outside ASCII that the model's buffers use (two bytes each).
TwoByteLetters == {"é"}

\* Vertical Tab, '\x0B': the string holds the character itself.
VerticalTab == ""

\* Next Line, '\u{0085}' (two bytes): the string holds the character itself.
NextLine == ""

\* Line Separator, '\u{2028}', and Paragraph Separator, '\u{2029}' (three
\* bytes each): no string of the language can hold them, these stand for them.
LineSeparator == "<U+2028>"

ParagraphSeparator == "<U+2029>"

\* The characters of three bytes that the model knows.
ThreeByteChars == {LineSeparator, ParagraphSeparator}

Range(s) == {s[i] : i \in 1..Len(s)}

\* char::len_utf8
len_utf8(c) ==
    IF c \in ThreeByteChars THEN 3
    ELSE IF c \in TwoByteLetters \cup {NextLine} THEN 2
    ELSE 1

\* char::is_whitespace
is_whitespace(c) ==
    c \in {" ", "\t", "\n", VerticalTab, "\f", "\r",
           NextLine, LineSeparator, ParagraphSeparator}

\* UnicodeXID::is_xid_start
is_xid_start(c) == c \in Range(LowerLetters) \cup Range(UpperLetters) \cup TwoByteLetters

\* UnicodeXID::is_xid_continue
is_xid_continue(c) == is_xid_start(c) \/ c \in Digits \/ c = "_"

\* char::to_lowercase, and str::to_lowercase character by character
LowerChar(c) ==
    IF \E i \in 1..Len(UpperLetters) : UpperLetters[i] = c
    THEN LowerLetters[CHOOSE i \in 1..Len(UpperLetters) : UpperLetters[i] = c]
    ELSE c

to_lowercase(s) == [i \in 1..Len(s) |-> LowerChar(s[i])]

\* Characters allowable in identifiers like cite keys.
is_ident(c, first) ==
    IF c \in {"\"", "#", "'", "(", ")", ",", "=", "{", "}", "%", "\\", "~"}
    THEN FALSE
    ELSE IF c \in {":", "<", "-", ">", "_"} /\ ~first
    THEN TRUE
    ELSE IF first THEN is_xid_start(c) ELSE is_xid_continue(c)

(***************************************************************************)
(* Byte offsets and slices of a text.                                      *)
(***************************************************************************)
\* The number of characters of s in the bytes bytes that follow its first i
\* characters (the offsets are codepoint boundaries).
RECURSIVE CharsFrom(_, _, _)
CharsFrom(s, i, bytes) ==
    IF bytes <= 0 \/ i >= Len(s) THEN i
    ELSE CharsFrom(s, i + 1, bytes - len_utf8(s[i + 1]))

\* The number of characters that lie before byte offset off.
CharsBefore(s, off) == CharsFrom(s, 0, off)

\* &s[a .. b]
Slice(s, a, b) == SubSeq(s, CharsBefore(s, a) + 1, CharsBefore(s, b))

(***************************************************************************)
(* HashMap<&str, &str>: a function from the names present to their values. *)
(***************************************************************************)
EmptyMap == [k \in {} |-> <<>>]

\* A faulty insert that keeps the value a name already has.
InsertIfAbsent(m, k, v) ==
    [x \in (DOMAIN m) \cup {k} |-> IF x \in DOMAIN m THEN m[x] ELSE v]

\* HashMap::insert
Insert(m, k, v) == [x \in (DOMAIN m) \cup {k} |-> IF x = k THEN v ELSE m[x]]


(***************************************************************************)
(* The buffers parsed: a fixed beginning followed by at most MaxTail       *)
(* freely chosen characters.                                               *)
(***************************************************************************)
TailChars == {"{", "}", "\"", ",", "\\", "=", "a"}

Tails == UNION {[1..n -> TailChars] : n \in 0..MaxTail}

Heads ==
    { <<>>,
      <<"@", "a", "{", "k", ",">>,
      <<"@", "a", "{", "k", ",", "x", "=">>,
      <<"@", "a", "{", "k", ",", "x", "=", "a", ",", "x", "=">>,
      <<"@", "s", "t", "r", "i", "n", "g", "{">>,
      <<"@", "S", "t", "r", "i", "n", "g", "{", "x", "=">>,
      <<"@", "s", "t", "r", "i", "n", "g", "{", "x", "=", "a", "}",
        "@", "S", "T", "R", "I", "N", "G", "{", "x", "=">>,
      <<"@", "p", "r", "e", "a", "m", "b", "l", "e", "{">>,
      <<"@", "P", "R", "E", "A", "M", "B", "L", "E", "{", "\"", "a">>,
      <<"@", " ", "a", "{", " ", "k", " ", ",">>,
      <<"@", "a">>,
      <<"@", "a", " ">>,
      <<"@", "a", "{", "k">>,
      <<"%", "@", "a", "\n", "@", "a", "{", "k", ",">>,
      <<"@", "a", "{", "k", ",", "%", "x", "\n">>,
      <<"@", "é", "{", "é", ",", "é", "=">>,
      <<"@", "a", "=", "@", "b", "{", "k", ",">>,
      <<"@", "a", "{", "k", ",", "x", "=", "{", "a", ",", "{">>,
      <<"@", "a", "{", "k", ",", "x", "=", "\"">>,
      <<"@", "a", "{", "k", ",", "x", "=", "a", "\\">>,
      <<"@", "a", "{", "k", ",", "x", "=", " ", "a", "}", "@", "b">>,
      <<"@", "p", "r", "e", "a", "m", "b", "l", "e", "{", " ", "\"">>,
      <<"@", "a", "{", "k", ",", "x", "=", "a", ",", "%", "y", "\n">>,
      <<"@", "a", "{", "k", ",", "x", "=", "a", "%", "c", "\n">>,
      <<"@", "1">>,
      <<"@", "a", "!">>,
      <<"\\", "@", "a">> }

Inputs == {h \o t : h \in Heads, t \in Tails}

(***************************************************************************)
(* State: the fields of BiblatexParser, the control point, and the locals  *)
(* of parse_entry and read_prop.                                           *)
(***************************************************************************)
VARIABLES
    src,            \* BiblatexParser::src
    allow_bibtex,   \* BiblatexParser::allow_bibtex
    mode,           \* BiblatexParser::mode
    index,          \* BiblatexParser::index
    iter,           \* BiblatexParser::iter: the number of characters it has yielded
    comment,        \* BiblatexParser::comment
    res,            \* BiblatexParser::res
    pc,             \* the loop the parser is in
    ret,            \* the call site skip_ws returns to
    type_start, type_end, key_start, key_end, is_string, entry_type, fields,
    c,              \* the character peeked by parse_entry's loop head
    start, end, name, stack, val_start, val_end, escape,
    head_index,     \* history: index when the PreambleMode or EntryMode iteration in progress began
    comment_chars,  \* history: the characters of the comments met between properties
    field_chars,    \* history: the characters of the names and values read_prop returned
    scanner,        \* a Scanner: its src and index
    op,             \* the Scanner operation performed last
    arg,            \* the offset passed to it, when it is jump
    panicked        \* whether that operation panicked

parserVars == <<src, allow_bibtex, mode, index, iter, comment, res>>
entryVars == <<type_start, type_end, key_start, key_end, is_string, entry_type, fields, c>>
propVars == <<start, end, name, stack, val_start, val_end, escape>>
histVars == <<head_index, comment_chars, field_chars>>
scannerVars == <<scanner, op, arg, panicked>>
vars == <<parserVars, pc, ret, entryVars, propVars, histVars, scannerVars>>

\* The locals of parse_entry before the call and after its return.
NoEntry ==
    /\ type_start' = 0 /\ type_end' = 0 /\ key_start' = 0 /\ key_end' = 0
    /\ is_string' = FALSE /\ entry_type' = NoneStr /\ fields' = EmptyMap /\ c' = None

\* The locals of read_prop before the call and after its return.
NoProp ==
    /\ start' = 0 /\ end' = 0 /\ name' = <<>> /\ stack' = <<>>
    /\ val_start' = 0 /\ val_end' = 0 /\ escape' = FALSE

\* BiblatexParser::new, for a buffer of `buffers` and a flag of `flags`
New(buffers, flags) ==
    /\ src \in buffers
    /\ allow_bibtex \in flags
    /\ mode = "Outside"
    /\ index = 0
    /\ iter = 0
    /\ comment = FALSE
    /\ res = [preamble |-> <<>>, entries |-> <<>>, strings |-> EmptyMap]
    /\ pc = "parse"
    /\ ret = "none"
    /\ type_start = 0 /\ type_end = 0 /\ key_start = 0 /\ key_end = 0
    /\ is_string = FALSE /\ entry_type = NoneStr /\ fields = EmptyMap /\ c = None
    /\ start = 0 /\ end = 0 /\ name = <<>> /\ stack = <<>>
    /\ val_start = 0 /\ val_end = 0 /\ escape = FALSE
    /\ head_index = 0 /\ comment_chars = {} /\ field_chars = {}

\* No Scanner is in use.
NoScanner ==
    /\ scanner = [src |-> <<>>, index |-> 0]
    /\ op = "none" /\ arg = 0 /\ panicked = FALSE

Init == New(Inputs, BOOLEAN) /\ NoScanner

\* BiblatexParser::peek
peek == IF iter < Len(src) THEN src[iter + 1] ELSE None

\* BiblatexParser::eat, when there is a character left
eat == iter' = iter + 1 /\ index' = index + len_utf8(peek)

(***************************************************************************)
(* parse: the top-level loop.                                              *)
(***************************************************************************)
\* The loop ends with the buffer and parse returns self.res.
ParseReturn ==
    /\ pc = "parse"
    /\ peek = None
    /\ pc' = "done"
    /\ UNCHANGED <<scannerVars, histVars, parserVars, ret, entryVars, propVars>>

\* '@' outside a comment: parse_entry is called; its prologue runs.
ParseAt ==
    /\ pc = "parse"
    /\ peek = "@" /\ ~comment
    /\ eat
    /\ mode' = "Type"
    /\ type_start' = index' /\ type_end' = index'
    /\ key_start' = 0 /\ key_end' = 0
    /\ is_string' = FALSE /\ entry_type' = NoneStr /\ fields' = EmptyMap
    /\ pc' = "parse_entry"
    /\ UNCHANGED <<scannerVars, histVars, src, allow_bibtex, comment, res, ret, c, propVars>>

\* Any other character: only the comment flag can change.
ParseOther ==
    /\ pc = "parse"
    /\ peek # None /\ ~(peek = "@" /\ ~comment)
    /\ eat
    /\ comment' = IF peek = "%" THEN TRUE
                  ELSE IF peek \in {"\n", "\r"} THEN FALSE
                  ELSE comment
    /\ UNCHANGED <<scannerVars, histVars, src, allow_bibtex, mode, res, pc, ret, entryVars, propVars>>

(***************************************************************************)
(* parse_entry: the per-block loop and the code after it.                  *)
(***************************************************************************)
BiblatexEntry(et) ==
    [cite_key |-> Slice(src, key_start, key_end),
     entry_type |-> unwrap_or_default(et),
     fields |-> fields]

\* A faulty end of parse_entry that pushes the Entry of a string block too.
EndEntryAlways(et) ==
    /\ res' = [res EXCEPT !.entries = Append(@, BiblatexEntry(et))]
    /\ mode' = "Outside"
    /\ pc' = "parse"
    /\ NoEntry

\* The code after the loop, with et the value of entry_type then.
EndEntry(et) ==
    /\ res' = IF ~is_string
              THEN [res EXCEPT !.entries = Append(@, BiblatexEntry(et))]
              ELSE res
    /\ mode' = "Outside"
    /\ pc' = "parse"
    /\ NoEntry

\* The loop head finds the buffer at its end.
EntryEof ==
    /\ pc = "parse_entry"
    /\ peek = None
    /\ EndEntry(entry_type)
    /\ UNCHANGED <<scannerVars, histVars, src, allow_bibtex, index, iter, comment, ret, propVars>>

\* The `_ => break` arm: the block was closed.
EntryOutside ==
    /\ pc = "parse_entry"
    /\ peek # None /\ mode = "Outside"
    /\ EndEntry(entry_type)
    /\ UNCHANGED <<scannerVars, histVars, src, allow_bibtex, index, iter, comment, ret, propVars>>

TypeIdent ==
    /\ pc = "parse_entry"
    /\ peek # None /\ mode = "Type"
    /\ is_ident(peek, type_start = type_end)
    /\ eat
    /\ type_end' = index'
    /\ UNCHANGED <<scannerVars, histVars, src, allow_bibtex, mode, comment, res, pc, ret,
                   type_start, key_start, key_end, is_string, entry_type, fields, c,
                   propVars>>

TypeWhitespace ==
    /\ pc = "parse_entry"
    /\ peek # None /\ mode = "Type"
    /\ ~is_ident(peek, type_start = type_end)
    /\ is_whitespace(peek)
    /\ entry_type' = Some(Slice(src, type_start, type_end))
    /\ eat
    /\ UNCHANGED <<scannerVars, histVars, src, allow_bibtex, mode, comment, res, pc, ret,
                   type_start, type_end, key_start, key_end, is_string, fields, c,
                   propVars>>

\* The mode a block of the given lower-cased type goes to at its `{`.
BlockMode(lower_type) ==
    IF lower_type = <<"s", "t", "r", "i", "n", "g">> THEN "EntryMode"
    ELSE IF lower_type = <<"p", "r", "e", "a", "m", "b", "l", "e">> THEN "PreambleMode"
    ELSE "KeyMode"

TypeBrace ==
    /\ pc = "parse_entry"
    /\ peek = "{" /\ mode = "Type"
    /\ entry_type' = Some(Slice(src, type_start, type_end))
    /\ eat
    /\ LET lower_type == to_lowercase(Slice(src, type_start, type_end))
       IN  /\ mode' = BlockMode(lower_type)
           /\ is_string' = (lower_type = <<"s", "t", "r", "i", "n", "g">>)
           /\ IF BlockMode(lower_type) = "KeyMode"
              THEN key_start' = index' /\ key_end' = index'
              ELSE UNCHANGED <<key_start, key_end>>
    /\ UNCHANGED <<scannerVars, histVars, src, allow_bibtex, comment, res, pc, ret,
                   type_start, type_end, fields, c, propVars>>

\* "TODO: Invalid": neither an identifier character, whitespace nor `{`.
TypeInvalid ==
    /\ pc = "parse_entry"
    /\ peek # None /\ mode = "Type"
    /\ ~is_ident(peek, type_start = type_end)
    /\ ~is_whitespace(peek) /\ peek # "{"
    /\ EndEntry(Some(Slice(src, type_start, type_end)))
    /\ UNCHANGED <<scannerVars, histVars, src, allow_bibtex, index, iter, comment, ret, propVars>>

KeyIdent ==
    /\ pc = "parse_entry"
    /\ peek # None /\ mode = "KeyMode"
    /\ is_ident(peek, key_start = key_end)
    /\ eat
    /\ key_end' = index'
    /\ UNCHANGED <<scannerVars, histVars, src, allow_bibtex, mode, comment, res, pc, ret,
                   type_start, type_end, key_start, is_string, entry_type, fields, c,
                   propVars>>

KeyWhitespace ==
    /\ pc = "parse_entry"
    /\ peek # None /\ mode = "KeyMode"
    /\ ~is_ident(peek, key_start = key_end)
    /\ is_whitespace(peek)
    /\ eat
    /\ UNCHANGED <<scannerVars, histVars, src, allow_bibtex, mode, comment, res, pc, ret, entryVars, propVars>>

KeyComma ==
    /\ pc = "parse_entry"
    /\ peek = "," /\ mode = "KeyMode"
    /\ eat
    /\ mode' = "EntryMode"
    /\ UNCHANGED <<scannerVars, histVars, src, allow_bibtex, comment, res, pc, ret, entryVars, propVars>>

\* "TODO: Invalid": neither an identifier character, whitespace nor `,`.
KeyInvalid ==
    /\ pc = "parse_entry"
    /\ peek # None /\ mode = "KeyMode"
    /\ ~is_ident(peek, key_start = key_end)
    /\ ~is_whitespace(peek) /\ peek # ","
    /\ EndEntry(entry_type)
    /\ UNCHANGED <<scannerVars, histVars, src, allow_bibtex, index, iter, comment, ret, propVars>>

\* PreambleMode begins with a call of skip_ws; c is the character peeked before.
PreambleSkip ==
    /\ pc = "parse_entry"
    /\ peek # None /\ mode = "PreambleMode"
    /\ c' = peek
    /\ pc' = "skip_ws" /\ ret' = "PreambleMode"
    /\ head_index' = index
    /\ UNCHANGED <<scannerVars, comment_chars, field_chars, parserVars, type_start, type_end, key_start, key_end, is_string,
                   entry_type, fields, propVars>>

\* EntryMode begins with a call of skip_ws.
EntrySkip ==
    /\ pc = "parse_entry"
    /\ peek # None /\ mode = "EntryMode"
    /\ c' = peek
    /\ pc' = "skip_ws" /\ ret' = "EntryMode"
    /\ head_index' = index
    /\ UNCHANGED <<scannerVars, comment_chars, field_chars, parserVars, type_start, type_end, key_start, key_end, is_string,
                   entry_type, fields, propVars>>

(***************************************************************************)
(* skip_ws: one step per character skipped; the step that leaves the loop  *)
(* is the first step of the code that follows the call.                    *)
(***************************************************************************)
\* The characters of the comment that the `%` at position p begins: they reach
\* to the next '\n' or '\r', which ends the comment and is no part of it.
CommentFrom(p) ==
    {q \in p..Len(src) : \A r \in p..q : src[r] \notin {"\n", "\r"}}

\* Whether an iteration of skip_ws eats ch (it leaves the loop otherwise).
SkipWsEats(ch, cm) ==
    /\ ch # None
    /\ \/ ch = "%"
       \/ ch \in {"\n", "\r"}
       \/ cm
       \/ is_whitespace(ch)

SkipWsStep ==
    /\ pc = "skip_ws"
    /\ SkipWsEats(peek, comment)
    /\ eat
    /\ comment' = IF peek = "%" THEN TRUE
                  ELSE IF peek \in {"\n", "\r"} THEN FALSE
                  ELSE comment
    /\ comment_chars' = IF peek = "%" /\ ret \in {"EntryMode", "read_prop"}
                        THEN comment_chars \cup CommentFrom(iter + 1)
                        ELSE comment_chars
    /\ UNCHANGED <<scannerVars, head_index, field_chars, src, allow_bibtex, mode, res, pc, ret, entryVars, propVars>>


\* skip_ws returns: it meets the end of the buffer or a character it does not eat.
SkipWsReturns == pc = "skip_ws" /\ ~SkipWsEats(peek, comment)

(***************************************************************************)
(* parse_entry, PreambleMode after skip_ws.                                 *)
(***************************************************************************)
\* c, peeked before skip_ws, is the opening quote: it is eaten.
PreambleOpen ==
    /\ SkipWsReturns /\ ret = "PreambleMode"
    /\ c = "\""
    /\ IF peek # None THEN eat ELSE UNCHANGED <<index, iter>>
    /\ pc' = "preamble" /\ ret' = "none"
    /\ UNCHANGED <<scannerVars, histVars, src, allow_bibtex, mode, comment, res, entryVars, propVars>>

\* c is no quote: nothing is copied.
PreambleNone ==
    /\ SkipWsReturns /\ ret = "PreambleMode"
    /\ c # "\""
    /\ mode' = "Outside"
    /\ pc' = "parse_entry" /\ ret' = "none"
    /\ UNCHANGED <<scannerVars, histVars, src, allow_bibtex, index, iter, comment, res, entryVars, propVars>>

\* The copying loop pushes a character onto the preamble.
PreambleCopy ==
    /\ pc = "preamble"
    /\ peek # None /\ peek # "\""
    /\ eat
    /\ res' = [res EXCEPT !.preamble = Append(@, peek)]
    /\ UNCHANGED <<scannerVars, histVars, src, allow_bibtex, mode, comment, pc, ret, entryVars, propVars>>

\* The copying loop ends at the closing quote, which it eats, or with the buffer.
PreambleClose ==
    /\ pc = "preamble"
    /\ peek = None \/ peek = "\""
    /\ IF peek # None THEN eat ELSE UNCHANGED <<index, iter>>
    /\ mode' = "Outside"
    /\ pc' = "parse_entry"
    /\ UNCHANGED <<scannerVars, histVars, src, allow_bibtex, comment, res, ret, entryVars, propVars>>

(***************************************************************************)
(* parse_entry, EntryMode after skip_ws.                                    *)
(***************************************************************************)
\* The block's closing brace is next and the loop continues in EntryMode.
EntryCloseStaysOpen ==
    /\ SkipWsReturns /\ ret = "EntryMode"
    /\ peek = "}"
    /\ pc' = "parse_entry" /\ ret' = "none"
    /\ UNCHANGED <<scannerVars, histVars, src, allow_bibtex, mode, index, iter, comment, res, entryVars, propVars>>

\* The block's closing brace is next: the mode is Outside and the loop continues.
EntryClose ==
    /\ SkipWsReturns /\ ret = "EntryMode"
    /\ peek = "}"
    /\ mode' = "Outside"
    /\ pc' = "parse_entry" /\ ret' = "none"
    /\ UNCHANGED <<scannerVars, histVars, src, allow_bibtex, index, iter, comment, res, entryVars, propVars>>

\* Otherwise read_prop is called; it begins with a call of skip_ws.
EntryReadProp ==
    /\ SkipWsReturns /\ ret = "EntryMode"
    /\ peek # "}"
    /\ ret' = "read_prop"
    /\ UNCHANGED <<scannerVars, histVars, parserVars, pc, entryVars, propVars>>

(***************************************************************************)
(* read_prop.                                                              *)
(***************************************************************************)
\* After the first skip_ws the name begins.
PropStart ==
    /\ SkipWsReturns /\ ret = "read_prop"
    /\ start' = index /\ end' = index
    /\ pc' = "name" /\ ret' = "none"
    /\ UNCHANGED <<scannerVars, histVars, parserVars, entryVars, name, stack, val_start, val_end, escape>>

NameIdent ==
    /\ pc = "name"
    /\ peek # None
    /\ is_ident(peek, start = end)
    /\ eat
    /\ end' = index'
    /\ UNCHANGED <<scannerVars, histVars, src, allow_bibtex, mode, comment, res, pc, ret, entryVars,
                   start, name, stack, val_start, val_end, escape>>

\* The name loop ends; the name is the slice eaten.
NameEnd ==
    /\ pc = "name"
    /\ peek = None \/ ~is_ident(peek, start = end)
    /\ name' = Slice(src, start, end)
    /\ pc' = "equals"
    /\ UNCHANGED <<scannerVars, histVars, parserVars, ret, entryVars, start, end, stack, val_start, val_end,
                   escape>>

\* A character before the `=` is eaten and dropped.
EqualsSkip ==
    /\ pc = "equals"
    /\ peek # None /\ peek # "="
    /\ eat
    /\ UNCHANGED <<scannerVars, histVars, src, allow_bibtex, mode, comment, res, pc, ret, entryVars, propVars>>

\* The `=` is eaten, or the buffer ends; skip_ws is called.
EqualsEnd ==
    /\ pc = "equals"
    /\ peek = None \/ peek = "="
    /\ IF peek # None THEN eat ELSE UNCHANGED <<index, iter>>
    /\ pc' = "skip_ws" /\ ret' = "value"
    /\ UNCHANGED <<scannerVars, histVars, src, allow_bibtex, mode, comment, res, entryVars, propVars>>

\* After the second skip_ws the value begins.
ValueStart ==
    /\ SkipWsReturns /\ ret = "value"
    /\ stack' = <<>>
    /\ val_start' = index /\ val_end' = index
    /\ escape' = FALSE
    /\ pc' = "value" /\ ret' = "none"
    /\ UNCHANGED <<scannerVars, histVars, parserVars, entryVars, start, end, name>>

\* Vec::last, None on the empty stack
last(st) == IF st = <<>> THEN None ELSE st[Len(st)]

\* Vec::pop
pop(st) == SubSeq(st, 1, Len(st) - 1)

\* A faulty match without the three arms for escaped delimiters.
ValueArmNoEscape(ch, st, esc) ==
    IF ch = "\\" THEN "backslash"
    ELSE IF ch = "," /\ st = <<>> THEN "separator"
    ELSE IF ch = "}" /\ st = <<>> THEN "close_block"
    ELSE IF ch = "\"" /\ last(st) = "Quotes" THEN "close_quote"
    ELSE IF ch = "\"" /\ st = <<>> THEN "open_quote"
    ELSE IF ch = "{" THEN "open_brace"
    ELSE IF ch = "}" THEN "close_brace"
    ELSE "other"

\* A faulty match whose `"` arm opens a quote context inside a brace context.
ValueArmQuoteAnywhere(ch, st, esc) ==
    IF ch = "\\" THEN "backslash"
    ELSE IF ch = "{" /\ esc THEN "escaped"
    ELSE IF ch = "}" /\ esc THEN "escaped"
    ELSE IF ch = "\"" /\ esc THEN "escaped"
    ELSE IF ch = "," /\ st = <<>> THEN "separator"
    ELSE IF ch = "}" /\ st = <<>> THEN "close_block"
    ELSE IF ch = "\"" /\ last(st) = "Quotes" THEN "close_quote"
    ELSE IF ch = "\"" THEN "open_quote"
    ELSE IF ch = "{" THEN "open_brace"
    ELSE IF ch = "}" THEN "close_brace"
    ELSE "other"

\* The arm of the value loop's match that takes character ch.
ValueArm(ch, st, esc) ==
    IF ch = "\\" THEN "backslash"
    ELSE IF ch = "{" /\ esc THEN "escaped"
    ELSE IF ch = "}" /\ esc THEN "escaped"
    ELSE IF ch = "\"" /\ esc THEN "escaped"
    ELSE IF ch = "," /\ st = <<>> THEN "separator"
    ELSE IF ch = "}" /\ st = <<>> THEN "close_block"
    ELSE IF ch = "\"" /\ last(st) = "Quotes" THEN "close_quote"
    ELSE IF ch = "\"" /\ st = <<>> THEN "open_quote"
    ELSE IF ch = "{" THEN "open_brace"
    ELSE IF ch = "}" THEN "close_brace"
    ELSE "other"

\* The stack after the arm has run.
ArmStack(arm, st) ==
    CASE arm = "close_quote" -> pop(st)
      [] arm = "open_quote" -> Append(st, "Quotes")
      [] arm = "open_brace" -> Append(st, "Braces")
      [] arm = "close_brace" -> pop(st)
      [] OTHER -> st

\* The positions of the characters of &self.src[from .. to]
CharsOf(from, to) == (CharsBefore(src, from) + 1) .. CharsBefore(src, to)

\* read_prop returns Ok((name, value)) and EntryMode inserts the pair.
StoreProp(value) ==
    /\ IF is_string
       THEN /\ res' = [res EXCEPT !.strings = Insert(@, name, value)]
            /\ UNCHANGED fields
       ELSE /\ fields' = Insert(fields, name, value)
            /\ UNCHANGED res
    /\ field_chars' = field_chars \cup CharsOf(start, end) \cup CharsOf(val_start, val_end)
    /\ pc' = "parse_entry"
    /\ NoProp

\* The value &self.src[val_start .. val_end]
Value == Slice(src, val_start, val_end)

\* The backslashes that stand in a row directly before character p, counted
\* back to the first character of the value: the number of times in a row the
\* backslash arm of the value loop was taken just before p is met.
RECURSIVE BackslashRun(_)
BackslashRun(p) ==
    IF p - 1 > CharsBefore(src, val_start) /\ src[p - 1] = "\\"
    THEN 1 + BackslashRun(p - 1)
    ELSE 0

\* A backslash: the next character is escaped; val_end stays (`continue`).
ValueBackslash ==
    /\ pc = "value"
    /\ peek # None
    /\ ValueArm(peek, stack, escape) = "backslash"
    /\ eat
    /\ escape' = TRUE
    /\ UNCHANGED <<scannerVars, histVars, src, allow_bibtex, mode, comment, res, pc, ret, entryVars,
                   start, end, name, stack, val_start, val_end>>

\* A character of the value that is no terminator.  The value loop gives `%` no
\* meaning: it is eaten as any other character and val_end moves past it.  The
\* history variable records the comment that such a `%` starts when it stands
\* outside every brace and quote context with an even run of backslashes, none
\* included, before it.
ValueChar ==
    /\ pc = "value"
    /\ peek # None
    /\ LET arm == ValueArm(peek, stack, escape)
       IN  /\ arm \notin {"backslash", "separator", "close_block"}
           /\ ~(arm = "close_brace" /\ last(stack) # "Braces")
           /\ stack' = ArmStack(arm, stack)
    /\ eat
    /\ escape' = FALSE
    /\ val_end' = index'
    /\ comment_chars' = IF peek = "%" /\ stack = <<>> /\ BackslashRun(iter + 1) % 2 = 0
                        THEN comment_chars \cup CommentFrom(iter + 1)
                        ELSE comment_chars
    /\ UNCHANGED <<scannerVars, head_index, field_chars, src, allow_bibtex, mode, comment, res, pc, ret,
                   entryVars, start, end, name, val_start>>

\* A `,` on the empty stack ends the value.
ValueSeparator ==
    /\ pc = "value"
    /\ peek # None
    /\ ValueArm(peek, stack, escape) = "separator"
    /\ eat
    /\ StoreProp(Value)
    /\ UNCHANGED <<scannerVars, head_index, comment_chars, src, allow_bibtex, mode, comment, ret,
                   type_start, type_end, key_start, key_end, is_string, entry_type, c>>

\* A `}` on the empty stack ends the value and closes the block.
ValueCloseBlock ==
    /\ pc = "value"
    /\ peek # None
    /\ ValueArm(peek, stack, escape) = "close_block"
    /\ eat
    /\ mode' = "Outside"
    /\ StoreProp(Value)
    /\ UNCHANGED <<scannerVars, head_index, comment_chars, src, allow_bibtex, comment, ret,
                   type_start, type_end, key_start, key_end, is_string, entry_type, c>>

\* The buffer ends inside the value.
ValueEof ==
    /\ pc = "value"
    /\ peek = None
    /\ StoreProp(Value)
    /\ UNCHANGED <<scannerVars, head_index, comment_chars, src, allow_bibtex, mode, index, iter, comment, ret,
                   type_start, type_end, key_start, key_end, is_string, entry_type, c>>

\* A `}` that closes no brace: read_prop returns Err(()) and expect panics.
ValueMismatch ==
    /\ pc = "value"
    /\ peek # None
    /\ ValueArm(peek, stack, escape) = "close_brace"
    /\ last(stack) # "Braces"
    /\ eat
    /\ stack' = pop(stack)
    /\ pc' = "panicked"
    /\ UNCHANGED <<scannerVars, histVars, src, allow_bibtex, mode, comment, res, ret, entryVars,
                   start, end, name, val_start, val_end, escape>>

Next ==
    \/ ParseReturn \/ ParseAt \/ ParseOther
    \/ EntryEof \/ EntryOutside
    \/ TypeIdent \/ TypeWhitespace \/ TypeBrace \/ TypeInvalid
    \/ KeyIdent \/ KeyWhitespace \/ KeyComma \/ KeyInvalid
    \/ PreambleSkip \/ EntrySkip \/ SkipWsStep
    \/ PreambleOpen \/ PreambleNone \/ PreambleCopy \/ PreambleClose
    \/ EntryClose \/ EntryReadProp
    \/ PropStart \/ NameIdent \/ NameEnd \/ EqualsSkip \/ EqualsEnd
    \/ ValueStart \/ ValueBackslash \/ ValueChar \/ ValueSeparator
    \/ ValueCloseBlock \/ ValueEof \/ ValueMismatch

Spec == Init /\ [][Next]_vars

(***************************************************************************)
(* scanner.rs: the Scanner, a source text and a byte index into it.        *)
(***************************************************************************)
\* The longest source text of a Scanner.
MaxScan == 3

\* The characters of the Scanner's source texts.
ScanChars == {"a", "é", " ", "\n", ":", VerticalTab}

ScanTexts == UNION {[1..n -> ScanChars] : n \in 0..MaxScan}

\* str::len: the length in bytes
RECURSIVE str_len(_)
str_len(s) == IF s = <<>> THEN 0 ELSE len_utf8(Head(s)) + str_len(Tail(s))

\* str::is_char_boundary: the offsets at which a character starts or the text ends
is_char_boundary(s, i) == \E k \in 0..Len(s) : str_len(SubSeq(s, 1, k)) = i

\* char::is_control
is_control(ch) == ch \in {"\t", "\n", VerticalTab, "\f", "\r", NextLine}

\* Whether this character denotes a newline.
is_newline(character) ==
    character \in {"\n", VerticalTab, "\f", "\r",
                   NextLine, LineSeparator, ParagraphSeparator}

\* Whether a character can continue an identifier.
is_id_continue(ch) ==
    /\ ch \notin {"@", "{", "}", "\"", "#", "'", "(", ")", ",", "=", "%", "\\", "~"}
    /\ ~is_control(ch)
    /\ ~is_whitespace(ch)
    /\ ~is_newline(ch)

\* Whether a character can start an identifier.
is_id_start(ch) == ch \notin {":", "<", "-", ">", "_"} /\ is_id_continue(ch)

\* The closures the model passes to eat_while and eat_until.
Closures == {"is_whitespace", "is_newline", "is_id_start", "is_id_continue"}

\* f(ch), for a closure f
Call(f, ch) ==
    CASE f = "is_whitespace" -> is_whitespace(ch)
      [] f = "is_newline" -> is_newline(ch)
      [] f = "is_id_start" -> is_id_start(ch)
      [] f = "is_id_continue" -> is_id_continue(ch)

\* Scanner::new
Scanner_new(s) == [src |-> s, index |-> 0]

\* Scanner::rest, and chars().next() of it
Scanner_peek(sc) ==
    LET k == CharsBefore(sc.src, sc.index)
    IN  IF k < Len(sc.src) THEN sc.src[k + 1] ELSE None

\* Scanner::eat
Scanner_eat(sc) ==
    IF Scanner_peek(sc) # None
    THEN [sc EXCEPT !.index = @ + len_utf8(Scanner_peek(sc))]
    ELSE sc

\* Scanner::eat_if
Scanner_eat_if(sc, ch) ==
    IF Scanner_peek(sc) = ch THEN [sc EXCEPT !.index = @ + len_utf8(ch)] ELSE sc

\* Scanner::eat_until; negate tells the call of eat_while, whose closure is |c| !f(c)
RECURSIVE Scanner_eat_until(_, _, _)
Scanner_eat_until(sc, f, negate) ==
    LET ch == Scanner_peek(sc)
    IN  IF ch = None \/ (Call(f, ch) # negate) THEN sc
        ELSE Scanner_eat_until([sc EXCEPT !.index = @ + len_utf8(ch)], f, negate)

\* Scanner::eat_while
Scanner_eat_while(sc, f) == Scanner_eat_until(sc, f, TRUE)

\* Scanner::skip_ws
Scanner_skip_ws(sc) == Scanner_eat_while(sc, "is_whitespace")

\* Scanner::skip_trivia: its closure is is_whitespace(c) || is_newline(c)
RECURSIVE Scanner_skip_trivia(_)
Scanner_skip_trivia(sc) ==
    LET ch == Scanner_peek(sc)
    IN  IF ch = None \/ ~(is_whitespace(ch) \/ is_newline(ch)) THEN sc
        ELSE Scanner_skip_trivia([sc EXCEPT !.index = @ + len_utf8(ch)])

\* last_index that steps one byte back, whatever the character eaten last.
Scanner_last_index_byte(sc) == IF sc.index = 0 THEN 0 ELSE sc.index - 1

\* Scanner::last_index
Scanner_last_index(sc) ==
    LET k == CharsBefore(sc.src, sc.index)
    IN  IF k = 0 THEN 0 ELSE sc.index - len_utf8(sc.src[k])

\* Scanner::uneat
Scanner_uneat(sc) == [sc EXCEPT !.index = Scanner_last_index(sc)]

\* jump that accepts every offset up to the length of the source.
Scanner_jump_ok_in_bounds(sc, i) == i <= str_len(sc.src)

\* Scanner::jump: whether self.src.get(index ..) is Some
Scanner_jump_ok(sc, i) == i <= str_len(sc.src) /\ is_char_boundary(sc.src, i)

(***************************************************************************)
(* The operations of a Scanner, each a step; a panic ends the run.         *)
(***************************************************************************)
\* The parser takes no part in the steps of a Scanner.
ParserIdle == UNCHANGED <<parserVars, pc, ret, entryVars, propVars, histVars>>

\* The operation called fn returns.
Returned(fn) == op' = fn /\ arg' = 0 /\ panicked' = FALSE /\ ParserIdle

ScannerInit ==
    /\ New({<<>>}, {TRUE})
    /\ \E s \in ScanTexts : scanner = Scanner_new(s)
    /\ op = "new" /\ arg = 0 /\ panicked = FALSE

ScannerEat ==
    /\ ~panicked
    /\ scanner' = Scanner_eat(scanner)
    /\ Returned("eat")

ScannerEatIf ==
    \E ch \in ScanChars :
        /\ ~panicked
        /\ scanner' = Scanner_eat_if(scanner, ch)
        /\ Returned("eat_if")

\* eat_assert eats, then debug_assert_eq! panics on another character in a
\* build with debug assertions and does nothing in a build without them.
ScannerEatAssert ==
    \E ch \in ScanChars :
        /\ ~panicked
        /\ scanner' = Scanner_eat(scanner)
        /\ op' = "eat_assert" /\ arg' = 0
        /\ panicked' \in (IF Scanner_peek(scanner) = ch THEN {FALSE} ELSE BOOLEAN)
        /\ ParserIdle

ScannerEatWhile ==
    \E f \in Closures :
        /\ ~panicked
        /\ scanner' = Scanner_eat_while(scanner, f)
        /\ Returned("eat_while")

ScannerEatUntil ==
    \E f \in Closures :
        /\ ~panicked
        /\ scanner' = Scanner_eat_until(scanner, f, FALSE)
        /\ Returned("eat_until")

ScannerSkipWs ==
    /\ ~panicked
    /\ scanner' = Scanner_skip_ws(scanner)
    /\ Returned("skip_ws")

ScannerSkipTrivia ==
    /\ ~panicked
    /\ scanner' = Scanner_skip_trivia(scanner)
    /\ Returned("skip_trivia")

ScannerUneat ==
    /\ ~panicked
    /\ scanner' = Scanner_uneat(scanner)
    /\ Returned("uneat")

\* jump(i): expect panics when self.src.get(i ..) is None, before the assignment.
ScannerJump ==
    \E i \in 0..(str_len(scanner.src) + 1) :
        /\ ~panicked
        /\ op' = "jump" /\ arg' = i
        /\ IF Scanner_jump_ok(scanner, i)
           THEN scanner' = [scanner EXCEPT !.index = i] /\ panicked' = FALSE
           ELSE scanner' = scanner /\ panicked' = TRUE
        /\ ParserIdle

ScannerNext ==
    \/ ScannerEat \/ ScannerEatIf \/ ScannerEatAssert
    \/ ScannerEatWhile \/ ScannerEatUntil
    \/ ScannerSkipWs \/ ScannerSkipTrivia
    \/ ScannerUneat \/ ScannerJump

ScannerSpec == ScannerInit /\ [][ScannerNext]_vars

(***************************************************************************)
(* Vocabulary of the properties.                                           *)
(***************************************************************************)
\* The entry pushed last.
LastEntry(r) == r.entries[Len(r.entries)]

\* The mapping a property of the block in progress is written to.
Target == IF is_string THEN res.strings ELSE fields

\* A step that returns from read_prop and stores the property read.
Stored == pc = "value" /\ pc' = "parse_entry"

\* The value loop is about to eat a character.
InValue == pc = "value" /\ peek # None

\* The character before the one peeked is a backslash of the value in progress.
AfterBackslash == iter > CharsBefore(src, val_start) /\ src[iter] = "\\"

\* The lower-cased type of the block in progress, once its `{` has been eaten.
OpenedType ==
    IF pc \in {"parse_entry", "skip_ws", "preamble", "name", "equals", "value"}
       /\ mode # "Type" /\ entry_type # NoneStr
    THEN to_lowercase(entry_type[1])
    ELSE <<>>

NoWhitespace(s) == \A i \in 1..Len(s) : ~is_whitespace(s[i])

\* The parser is at a character that makes the block's header malformed.
MalformedHeader ==
    /\ pc = "parse_entry" /\ peek # None
    /\ \/ /\ mode = "Type"
          /\ ~is_ident(peek, type_start = type_end)
          /\ ~is_whitespace(peek) /\ peek # "{"
       \/ /\ mode = "KeyMode"
          /\ ~is_ident(peek, key_start = key_end)
          /\ ~is_whitespace(peek) /\ peek # ","

(***************************************************************************)
(* C1: parse_file runs to completion on every buffer and returns one       *)
(* ParsedFile; it never aborts without a result.                           *)
(***************************************************************************)
C1_NeverAborts == pc # "panicked"

(***************************************************************************)
(* C2: when a block's header is malformed, the step that abandons the      *)
(* block adds no Entry to the result.                                      *)
(***************************************************************************)
C2_MalformedAddsNoEntry ==
    [][MalformedHeader => res'.entries = res.entries]_vars

(***************************************************************************)
(* C3: no step taken inside a preamble block adds an Entry or a key of     *)
(* the field or macro mappings.                                            *)
(***************************************************************************)
C3_PreambleAddsNothing ==
    [][OpenedType = <<"p", "r", "e", "a", "m", "b", "l", "e">>
         => /\ res'.entries = res.entries
            /\ res'.strings = res.strings
            /\ fields' = EmptyMap]_vars

(***************************************************************************)
(* C4: in a block whose type is `string` in any case, every property read  *)
(* is written to the macro mapping under its name with its raw value,      *)
(* nothing is written to the fields, no cite key is read and no Entry is   *)
(* added.                                                                  *)
(***************************************************************************)
C4_StringBlock ==
    [][OpenedType = <<"s", "t", "r", "i", "n", "g">>
         => /\ res'.entries = res.entries
            /\ fields' = EmptyMap
            /\ mode' # "KeyMode" /\ key_end' = 0
            /\ Stored => /\ name \in DOMAIN res'.strings
                         /\ res'.strings[name] = Value]_vars

\* `@String{x="a"` has run: the macro x holds "a" with its quotes, no Entry.
C4_Witness ==
    /\ pc = "done"
    /\ src = <<"@", "S", "t", "r", "i", "n", "g", "{", "x", "=", "\"", "a", "\"">>
    /\ res.entries = <<>>
    /\ res.strings = (<<"x">> :> <<"\"", "a", "\"">>)

(***************************************************************************)
(* C5: a block still open when the buffer ends, in Type, KeyMode or        *)
(* EntryMode, adds no Entry.                                               *)
(***************************************************************************)
C5_OpenBlockAddsNoEntry ==
    [][(pc = "parse_entry" /\ peek = None /\ mode \in {"Type", "KeyMode", "EntryMode"})
         => res'.entries = res.entries]_vars

(***************************************************************************)
(* C6: in a value, an unescaped `,` or `}` met on the empty delimiter      *)
(* stack ends the value; a `,` or a matched `}` met while a brace or quote *)
(* context is open does not end it.  A character is unescaped when an even *)
(* run of backslashes, none included, stands before it.                    *)
(***************************************************************************)
C6_EndsAtUnescaped ==
    [][InValue
         => /\ (peek \in {",", "}"} /\ BackslashRun(iter + 1) % 2 = 0 /\ stack = <<>>) => Stored
            /\ (peek = "," /\ stack # <<>>) => pc' = "value"
            /\ (peek = "}" /\ last(stack) = "Braces") => pc' = "value"]_vars

(***************************************************************************)
(* C7: in a value, a `}`, `{` or `"` that follows a backslash leaves the   *)
(* delimiter stack as it is and does not end the value, whatever the       *)
(* stack holds.                                                            *)
(***************************************************************************)
C7_EscapedDelimiter ==
    [][(InValue /\ peek \in {"}", "{", "\""} /\ AfterBackslash)
         => stack' = stack /\ pc' = "value"]_vars

\* An escaped `}` has been eaten on the empty stack, and the value goes on.
C7_Witness ==
    /\ pc = "value"
    /\ stack = <<>>
    /\ iter > CharsBefore(src, val_start) + 1
    /\ src[iter] = "}" /\ src[iter - 1] = "\\"

(***************************************************************************)
(* C8: the raw value stored for a property is the source from the first    *)
(* value character up to the terminating `,` or `}`, or the end of the     *)
(* buffer, the terminator excluded and no character before it dropped.     *)
(***************************************************************************)
C8_ValueIsWholeSlice ==
    [][Stored => Target'[name] = Slice(src, val_start, index)]_vars

(***************************************************************************)
(* C9: the Entry of a block with a well-formed header that closes holds    *)
(* the type, key and field name tokens as written, with no whitespace      *)
(* around or inside them.                                                  *)
(***************************************************************************)
C9_TokensAsWritten ==
    [][(pc = "parse_entry" /\ mode = "Outside" /\ BlockMode(OpenedType) = "KeyMode")
         => /\ NoWhitespace(LastEntry(res').entry_type)
            /\ NoWhitespace(LastEntry(res').cite_key)
            /\ \A k \in DOMAIN LastEntry(res').fields : NoWhitespace(k)]_vars

(***************************************************************************)
(* C10: when a name already present in a mapping is written again, the     *)
(* mapping keeps one value for it, that of the later occurrence, and its   *)
(* other names keep their values.                                          *)
(***************************************************************************)
C10_LastWriteWins ==
    [][(Stored /\ name \in DOMAIN Target)
         => /\ DOMAIN Target' = DOMAIN Target
            /\ Target'[name] = Value
            /\ \A k \in DOMAIN Target \ {name} : Target'[k] = Target[k]]_vars

\* `x=a,x={}` has run: the field x holds the later value.
C10_Witness ==
    /\ pc = "done"
    /\ src = <<"@", "a", "{", "k", ",", "x", "=", "a", ",", "x", "=", "{", "}">>
    /\ res.entries[1].fields = (<<"x">> :> <<"{", "}">>)

(***************************************************************************)
(* Comments between properties.                                            *)
(***************************************************************************)
\* C11: no character of a `%` comment that stands between two properties of a
\* block, from the `%` up to the next line terminator, belongs to the name or
\* to the value of a property read before or after it.  The comments are those
\* whose `%` is met outside every brace and quote context: by skip_ws before a
\* property, or unescaped by the value loop before the separator.
C11_CommentOutsideFields == comment_chars \cap field_chars = {}

(***************************************************************************)
(* The allow_bibtex flag.                                                  *)
(***************************************************************************)
\* C12: with the flag off, `@string` and `@preamble` blocks are not recognised
\* as macro and preamble constructs: the macro mapping and the preamble of the
\* result stay empty, whatever the buffer holds.
C12_FlagOffNoLegacy == ~allow_bibtex => (res.strings = EmptyMap /\ res.preamble = <<>>)

(***************************************************************************)
(* The Scanner.                                                            *)
(***************************************************************************)
\* C13: jump(i) succeeds and sets the position to i exactly when i is at most
\* the length of the source and on a codepoint boundary; for any other i it
\* panics and the position stays what it was.
C13_JumpChecked ==
    [][op' = "jump" =>
        IF arg' \in 0..str_len(scanner.src) /\ is_char_boundary(scanner.src, arg')
        THEN ~panicked' /\ scanner'.index = arg'
        ELSE panicked' /\ scanner'.index = scanner.index]_vars

\* A jump into the middle of a character has panicked.
C13_Witness ==
    /\ op = "jump" /\ panicked
    /\ arg < str_len(scanner.src)
    /\ ~is_char_boundary(scanner.src, arg)
    /\ scanner.index # arg

\* C14: after any sequence of operations the index is a byte offset between 0
\* and the length of the source that lies on a codepoint boundary, and no
\* operation but uneat and jump decreases it.
C14_IndexOnBoundary ==
    /\ [](/\ scanner.index \in 0..str_len(scanner.src)
          /\ is_char_boundary(scanner.src, scanner.index))
    /\ [][scanner'.index < scanner.index => op' \in {"uneat", "jump"}]_vars

\* uneat has stepped back over a character of two bytes.
C14_Witness ==
    /\ op = "uneat"
    /\ Scanner_peek(scanner) \in TwoByteLetters
    /\ scanner.index > 0

(***************************************************************************)
(* The escape state of value scanning.                                     *)
(***************************************************************************)
\* C15: the escape state a backslash sets applies to the one character that
\* follows it: once that character is consumed the escape state is clear,
\* whatever the character is, another backslash included.
C15_EscapeOneCharacter == [][(InValue /\ escape) => ~escape']_vars

(***************************************************************************)
(* The `}` that ends a value and its block.                                *)
(***************************************************************************)
\* C16: an unescaped `}` met in value scanning on the empty stack ends the
\* value, which excludes it, and closes the block: the property is stored and
\* the mode is Outside right after the step; from there no further property is
\* read, parse_entry returns, and the text after the `}` is scanned by parse.
\* The `}` is unescaped when an even run of backslashes, none included, stands
\* before it.
C16_CloseEndsValueAndBlock ==
    [][/\ (InValue /\ peek = "}" /\ BackslashRun(iter + 1) % 2 = 0 /\ stack = <<>>) =>
            /\ Stored
            /\ mode' = "Outside"
            /\ val_end <= index /\ index' = index + 1
            /\ name \in DOMAIN Target'
            /\ Target'[name] = Slice(src, val_start, val_end)
       /\ (pc = "parse_entry" /\ mode = "Outside") =>
            /\ pc' = "parse"
            /\ index' = index /\ iter' = iter
            /\ res'.strings = res.strings
            /\ ~is_string => LastEntry(res').fields = fields]_vars

(***************************************************************************)
(* PreambleMode.                                                           *)
(***************************************************************************)
\* C17: once the whitespace and comments between the `{` of a preamble block
\* and its opening `"` are skipped, the quote is eaten and the characters up to
\* the next `"` are copied to the preamble.
C17_PreambleAfterSkip ==
    [][(SkipWsReturns /\ ret = "PreambleMode" /\ peek = "\"") =>
            (pc' = "preamble" /\ iter' = iter + 1)]_vars

(***************************************************************************)
(* The identifier rules of the parser and of the Scanner.                  *)
(***************************************************************************)
\* The Scanner's rule for a character of a token: is_id_start for the first
\* character, is_id_continue for the later ones.
IdRule(ch, first) == IF first THEN is_id_start(ch) ELSE is_id_continue(ch)

\* C18: wherever the parser tests a character of an entry type, a cite key or
\* a field name, its is_ident accepts the character exactly when the Scanner's
\* rule for that place of the token accepts it.
C18_IdentAgrees ==
    /\ (pc = "parse_entry" /\ peek # None /\ mode = "Type") =>
            (is_ident(peek, type_start = type_end) <=> IdRule(peek, type_start = type_end))
    /\ (pc = "parse_entry" /\ peek # None /\ mode = "KeyMode") =>
            (is_ident(peek, key_start = key_end) <=> IdRule(peek, key_start = key_end))
    /\ (pc = "name" /\ peek # None) =>
            (is_ident(peek, start = end) <=> IdRule(peek, start = end))

(***************************************************************************)
(* Termination.                                                            *)
(***************************************************************************)
\* How near the control point is to the end of parse when no character is
\* consumed: each step that consumes nothing leads to a smaller rank.
Rank ==
    CASE pc \in {"done", "panicked"} -> 0
      [] pc = "parse" -> 1
      [] pc = "parse_entry" -> IF mode = "Outside" \/ peek = None THEN 2 ELSE 9
      [] pc \in {"preamble", "value"} -> 3
      [] pc = "equals" -> 5
      [] pc = "name" -> 6
      [] pc = "skip_ws" ->
            CASE ret = "value" -> 4
              [] ret = "read_prop" -> 7
              [] OTHER -> 8

\* The characters left to consume, then the rank.
Measure == (Len(src) - iter) * 10 + Rank

\* The index never decreases, a step consumes at most the one next character,
\* and a step that stays in the top-level loop, in a single-step iteration of
\* the per-block loop, in the preamble, name, `=` or value loop, or in a call
\* of skip_ws consumes a character.
LoopsConsume ==
    /\ index' >= index
    /\ iter' \in {iter, iter + 1}
    /\ (pc' = pc /\ ret' = ret) => iter' = iter + 1

\* A PreambleMode or EntryMode iteration of the per-block loop ends and the
\* loop goes on to its next iteration.
BlockIterationEnds == pc \in {"skip_ws", "preamble", "value"} /\ pc' = "parse_entry"

\* C19, as claimed: every iteration of every loop, those of the per-block loop
\* included, consumes at least one character or leaves its loop.
C19_EveryIterationConsumes ==
    [][LoopsConsume /\ (BlockIterationEnds => index' > head_index)]_vars

\* C19, amended: parse terminates (every step lowers Measure, which is never
\* negative); the index never decreases and no character is consumed twice;
\* every iteration consumes a character or leaves its loop, except that an
\* iteration of the per-block loop may instead set the mode to Outside, upon
\* which the next iteration leaves the loop.
C19_Terminates ==
    [][/\ LoopsConsume
       /\ BlockIterationEnds => (index' > head_index \/ mode' = "Outside")
       /\ (pc = "parse_entry" /\ mode = "Outside") => pc' = "parse"
       /\ Measure' < Measure /\ Measure' >= 0]_vars

\* An EntryMode iteration met the block's `}` at once: it has consumed nothing
\* and the per-block loop is at its head again.
C19_Witness ==
    /\ pc = "parse_entry" /\ mode = "Outside"
    /\ head_index = index
    /\ peek = "}"

(***************************************************************************)
(* The top level.                                                          *)
(***************************************************************************)
\* C20: at top level a block is started exactly by an `@` that no backslash
\* escapes and that lies in no active line comment; a `%` starts a comment
\* that lasts to the next line terminator; every character that starts no
\* block leaves the result as it is.
C20_BlockStartsAtUnescapedAt ==
    [][(pc = "parse" /\ peek # None) =>
        /\ (pc' = "parse_entry") <=>
                (peek = "@" /\ ~comment /\ ~(iter > 0 /\ src[iter] = "\\"))
        /\ comment' = (IF peek = "%" THEN TRUE
                       ELSE IF peek \in {"\n", "\r"} THEN FALSE
                       ELSE comment)
        /\ (pc' # "parse_entry") => res' = res]_vars

(***************************************************************************)
(* Recovery from a malformed header.                                       *)
(***************************************************************************)
\* C21: the step that abandons a block with a malformed header hands the
\* offending character to the top-level loop in mode Outside and outside any
\* comment, with the result the header's `@` found (no step of a header
\* changes the result): the blocks that follow are parsed into the result
\* they would be parsed into if the malformed block were absent.
C21_ResumesAsIfAbsent ==
    [][MalformedHeader =>
            /\ pc' = "parse" /\ mode' = "Outside"
            /\ index' = index /\ iter' = iter
            /\ ~comment'
            /\ res' = res]_vars

(***************************************************************************)
(* The delimiter stack.                                                    *)
(***************************************************************************)
\* C22: in every state of value scanning the stack holds at most one quote
\* context, and at its bottom; a step of the value loop pushes a quote context
\* only onto the empty stack and removes one only from the top; a `"` met
\* while a brace context is innermost leaves the stack as it is.
C22_OneQuoteAtBottom ==
    /\ [](\A i \in 1..Len(stack) : stack[i] = "Quotes" => i = 1)
    /\ [][(pc = "value" /\ pc' \in {"value", "panicked"}) =>
            /\ (stack' = Append(stack, "Quotes")) => stack = <<>>
            /\ (Len(stack') < Len(stack)) => stack' = pop(stack)
            /\ (peek = "\"" /\ last(stack) = "Braces") => stack' = stack]_vars

\* A `"` was met inside a brace context that lies inside the quote context:
\* the stack is unchanged.
C22_Witness ==
    /\ pc = "value"
    /\ stack = <<"Quotes", "Braces">>
    /\ iter > 1 /\ src[iter] = "\"" /\ src[iter - 1] = "{"

=============================================================================
